---- MODULE Spec2Model ----
(***************************************************************************)
(* Relay scripts of Humidifier-Automation: scripts/relay_controller.py     *)
(* (RelayController, PinDiscovery, the discovery, simple-test, self-test   *)
(* and trigger-monitor modes of main), gpio_trigger_relays.py,             *)
(* relay_self_test_2ch.py and discover_relay_pins.py.                      *)
(*                                                                         *)
(* Channels are numbered from 1 here (channel i is relay_index i-1 of the  *)
(* Python code, "RELAY i" of its log lines); trigger k is trigger_pins[k-1].*)
(*                                                                         *)
(* RPi.GPIO is an external library; it is modelled by its documented       *)
(* contract: setup/output/input raise RuntimeError on a channel that is    *)
(* not set up, cleanup() returns every channel that was set up to an       *)
(* undriven input and forgets the numbering mode and the event detection,  *)
(* add_event_detect(..., bouncetime=b) ignores an edge that arrives within *)
(* b ms of the last edge for which the callback was called, and callbacks  *)
(* run in a thread of their own, concurrently with the main thread.        *)
(*                                                                         *)
(* Time is counted in ticks of 50 ms.                                      *)
(*                                                                         *)
(* Spec runs the four entry points with their default pins on a host where *)
(* RPi.GPIO works; CfgSpec adds the --pins overrides of main and the setup *)
(* failures of RPi.GPIO; ApiSpec is a client calling the relay operations  *)
(* directly, in any order and with any index; CtorSpec is such a client    *)
(* that gives the constructor a relay_pins list of any length;             *)
(* SelfTestSpec runs the two self-tests with any number of relays;         *)
(* DiscoverySpec runs the two pin discovery routines with any answers of   *)
(* the operator.                                                           *)
(***************************************************************************)
EXTENDS Integers, Sequences, FiniteSets, TLC

\* ------------------------------------------------------------- constants
RELAY_1_PIN == 22
RELAY_2_PIN == 5
TRIGGER_1_PIN == 19
TRIGGER_2_PIN == 26
GT_RELAY_1_PIN == 4
GT_RELAY_2_PIN == 17

\* time.sleep(0.05) in the callbacks: one tick of 50 ms
SettleTicks == 1
\* bouncetime=200: four ticks of 50 ms
BounceTicks == 4

\* Falling edges injected per trigger input.
MaxEdges == 2

\* Relay indices a client passes to the relay operations: -MaxIndex..MaxIndex.
MaxIndex == 3

\* Longest relay_pins list given to a constructor.
MaxRelays == 3

\* Largest cycles argument of test_sequential_pattern.
MaxCycles == 2

\* PinDiscovery: the candidate pins, in testing order
prime_suspects == <<4, 17, 18, 19, 20, 21, 22, 27>>

additional_pins == <<2, 3, 5, 6, 12, 13, 16, 26>>

\* discover_relay_pins.py: the candidate configurations, in testing order
COMMON_CONFIGS == <<<<4, 17>>, <<18, 19>>, <<20, 21>>, <<2, 3>>, <<5, 6>>, <<12, 16>>,
                    <<13, 26>>, <<22, 27>>>>

Pins == {RELAY_1_PIN, RELAY_2_PIN, TRIGGER_1_PIN, TRIGGER_2_PIN,
         GT_RELAY_1_PIN, GT_RELAY_2_PIN}
        \cup {prime_suspects[i] : i \in DOMAIN prime_suspects}
        \cup {additional_pins[i] : i \in DOMAIN additional_pins}

Level == {"LOW", "HIGH"}

Scripts == {"simple_test", "self_test", "trigger_monitor", "gpio_trigger_relays"}

ControllerScripts == {"simple_test", "self_test", "trigger_monitor"}

TriggerScripts == {"trigger_monitor", "gpio_trigger_relays"}

trigger_pins == <<TRIGGER_1_PIN, TRIGGER_2_PIN>>

Triggers == 1..Len(trigger_pins)

VARIABLES
    script,         \* which entry point runs
    relay_pins,     \* self.relay_pins / (RELAY_1_PIN, RELAY_2_PIN)
    relay_states,   \* self.relay_states / (relay_1_state, relay_2_state)
    gpio_mode,      \* RPi.GPIO: numbering mode set
    dir,            \* RPi.GPIO: set-up of each channel: "none", "in", "in_pullup", "out"
    out,            \* output latch of each line: the last level written
    det,            \* RPi.GPIO: falling-edge detection registered, per trigger
    trig,           \* electrical level of each trigger input
    since,          \* ticks since the callback was last called, per trigger (saturating)
    settle,         \* ticks left of the callback's time.sleep(0.05), per trigger
    cb,             \* position of the callback of each trigger
    cbt,            \* target state read by toggle_relay, per trigger
    pc,             \* position of the main thread
    ip,             \* step counter inside the main thread's current phase
    handler,        \* signal.signal(SIGINT, signal_handler) done
    sigint,         \* the operator's stop request was delivered
    pending,        \* exception in flight while main's finally block runs
    exit_code,      \* -1 while running, then the process exit code
    obs,            \* history, per trigger: edges and toggles of the current window
    sd,             \* history of the shutdown calls
    fault,          \* the RPi.GPIO failure this host produces at setup, if any
    call,           \* history: the last call a client made of a relay operation
    cycles,         \* the cycles argument of RelayTester.test_sequential_pattern
    disc            \* pin discovery: the candidate under test, the pins found, the history

\* What no step of the relay scripts changes: the configuration, the host, the record of
\* the calls made by a client that uses the relay operations directly, and the state of
\* the pin discovery.
cfgv == <<script, relay_pins, fault, call, cycles, disc>>
hwv == <<gpio_mode, dir, out, det>>
cbv == <<cb, cbt, settle>>
envv == <<trig, since>>
mainv == <<pc, ip, handler, sigint, pending, exit_code>>
vars == <<script, relay_pins, relay_states, gpio_mode, dir, out, det, trig, since,
          settle, cb, cbt, pc, ip, handler, sigint, pending, exit_code, obs, sd, fault, call,
          cycles, disc>>

NumRelays == Len(relay_pins)

Channels == 1..NumRelays

\* ------------------------------------------------------------- RPi.GPIO
\* GPIO.output(pin, level) succeeds only with the mode set and the channel an output.
OutputOk(p) == gpio_mode /\ p \in Pins /\ dir[p] = "out"

\* GPIO.input(pin) succeeds only with the mode set and the channel set up.
InputOk(p) == gpio_mode /\ p \in Pins /\ dir[p] # "none"

\* Failures of RPi.GPIO at setup that depend on the host: GPIO.setup raises RuntimeError
\* ("No access to /dev/mem") for a process that may not use the GPIO; add_event_detect
\* raises RuntimeError ("Failed to add edge detection") for a line it cannot watch.
Faults == {"none", "no_access", "edge_1", "edge_2"}

\* GPIO.setup(pin, ...) succeeds only with the mode set and a valid channel.
SetupOk(p) == gpio_mode /\ p \in Pins /\ fault # "no_access"

\* GPIO.add_event_detect on trigger k succeeds only with the channel set up as an input.
EdgeDetectOk(k) ==
    /\ gpio_mode
    /\ dir[trigger_pins[k]] \in {"in", "in_pullup"}
    /\ fault # (IF k = 1 THEN "edge_1" ELSE "edge_2")

\* A relay is energized when its line is driven at the active (LOW) level.
Energized(p) == dir[p] = "out" /\ out[p] = "LOW"

\* GPIO.LOW switches the relay on, GPIO.HIGH off (active low).
\* (Variant: the levels exchanged.)
LevelOfMutInverted(on) == IF on THEN "HIGH" ELSE "LOW"

LevelOf(on) == IF on THEN "LOW" ELSE "HIGH"

\* GPIO.setup(pin, GPIO.IN, pull_up_down=GPIO.PUD_UP): an input with the pull-up on.
\* (Variant: pull_up_down left out, a floating input.)
InputSetupMutFloating == "in"

InputSetup == "in_pullup"

\* GPIO.cleanup(): every channel back to an undriven input, mode and detection forgotten.
GPIO_cleanup ==
    /\ dir' = [p \in Pins |-> "none"]
    /\ gpio_mode' = FALSE
    /\ det' = [k \in Triggers |-> FALSE]
    /\ UNCHANGED out

\* ------------------------------------------------------------- initial state
DefaultPins(s) ==
    IF s \in {"gpio_trigger_relays", "relay_self_test_2ch"}
    THEN <<GT_RELAY_1_PIN, GT_RELAY_2_PIN>>
    ELSE <<RELAY_1_PIN, RELAY_2_PIN>>

\* Where the main thread of script s starts.
EntryPc(s) ==
    IF s \in ControllerScripts \cup {"relay_controller"} THEN "ctor"
    ELSE IF s = "relay_self_test_2ch" THEN "t_setup"
    ELSE IF s \in {"discover", "discover_relay_pins"} THEN "d_init"
    ELSE "g_setup"

\* History of one shutdown call: the channels whose write was attempted, the channels
\* whose write raised, whether GPIO.cleanup() was reached, and how many shutdown calls
\* had completed when it started.
NoCall == [active |-> FALSE, done0 |-> 0, attempt |-> {}, failed |-> {}, released |-> FALSE]

\* History of the run: initialization completed, a setup call of RPi.GPIO raised,
\* shutdown calls started and completed,
\* the current and the last ended shutdown call, the channels a shutdown has driven off.
SdInit == [inited |-> FALSE, setup_failed |-> FALSE, calls |-> 0, done |-> 0,
           cur |-> NoCall, last |-> NoCall, off |-> {}]

ObsInit == [total |-> 0, edges |-> 0, togs |-> 0, read |-> "none", st0 |-> FALSE]

\* No relay operation has been called by a client yet.
NoApiCall == [seq |-> 0, op |-> "none", idx |-> 0, raised |-> "none", log |-> <<>>,
              writes |-> <<>>, pre |-> [states |-> <<>>, out |-> <<>>],
              prev |-> [op |-> "none", idx |-> 0, states |-> <<>>]]

\* Pin discovery has not started: no candidate tested, no pin found, nothing returned.
NoDiscovery == [idx |-> 0, resp |-> FALSE, working |-> <<>>, tested |-> <<>>,
                confirmed |-> <<>>, returned |-> FALSE, result |-> <<>>]

InitCommon ==
    /\ disc = NoDiscovery
    /\ relay_states = <<FALSE, FALSE>>
    /\ gpio_mode = FALSE
    /\ dir = [p \in Pins |-> "none"]
    /\ out \in [Pins -> Level]
    /\ \A p \in Pins : p \notin {relay_pins[i] : i \in 1..Len(relay_pins)} => out[p] = "HIGH"
    /\ det = [k \in Triggers |-> FALSE]
    /\ trig = [k \in Triggers |-> "HIGH"]
    /\ since = [k \in Triggers |-> BounceTicks + 1]
    /\ settle = [k \in Triggers |-> 0]
    /\ cb = [k \in Triggers |-> "idle"]
    /\ cbt = [k \in Triggers |-> FALSE]
    /\ pc = EntryPc(script)
    /\ ip = 0
    /\ handler = FALSE
    /\ sigint = FALSE
    /\ pending = "none"
    /\ exit_code = -1
    /\ obs = [k \in Triggers |-> ObsInit]
    /\ sd = SdInit
    /\ call = NoApiCall

Init ==
    /\ script \in Scripts
    /\ relay_pins = DefaultPins(script)
    /\ fault = "none"
    /\ cycles = 2
    /\ InitCommon

\* ------------------------------------------------------------- shutdown history
SdInited(s) == [s EXCEPT !.inited = TRUE]

SdSetupFailed(s) == [s EXCEPT !.setup_failed = TRUE]

SdBegin(s) ==
    [s EXCEPT !.calls = @ + 1,
              !.cur = [active |-> TRUE, done0 |-> s.done, attempt |-> {}, failed |-> {},
                       released |-> FALSE]]

SdAttempt(s, i) == [s EXCEPT !.cur.attempt = @ \cup {i}]

SdWrote(s, i) == [s EXCEPT !.cur.attempt = @ \cup {i}, !.off = @ \cup {i}]

SdFail(s, i) == [s EXCEPT !.cur.attempt = @ \cup {i}, !.cur.failed = @ \cup {i}]

SdReleased(s) == [s EXCEPT !.cur.released = TRUE]

SdEnd(s, completed) ==
    [s EXCEPT !.last = [s.cur EXCEPT !.active = FALSE],
              !.cur = NoCall,
              !.done = IF completed THEN @ + 1 ELSE @]

\* ------------------------------------------------------------- control flow of main
\* Positions at which a shutdown call (cleanup / cleanup_and_exit) runs.
ShutdownPcs == {"handler", "finally", "g_handler", "g_except"}

Target(p, pend, code) == [pc |-> p, pending |-> pend, exit_code |-> code]

\* Where an Exception raised in the main thread at position p is caught.
OnException(p) ==
    CASE p = "ctor" -> Target("exited", "none", 1)
      [] p \in {"finally", "g_except"} -> Target("exited", "none", 1)
      [] p \in {"g_setup", "g_intr", "g_handler"} -> Target("g_except", "none", -1)
      [] p = "loop" /\ script = "gpio_trigger_relays" -> Target("g_except", "none", -1)
      [] OTHER -> Target("finally", "none", -1)

\* Where a KeyboardInterrupt raised in the main thread at position p is caught.
OnKeyboardInterrupt(p) ==
    CASE p = "ctor" -> Target("exited", "none", 1)
      [] p \in {"finally", "g_except", "t_finally"} -> Target("exited", "none", 1)
      [] p = "body" -> Target("except_kbint", "none", -1)
      [] p = "t_setup" -> Target("exited", "none", 0)
      [] p = "t_body" -> Target("t_finally", "none", -1)
      [] p = "d_test" -> Target("d_finally", "KeyboardInterrupt", -1)
      [] p \in {"d_loop", "d_finally"} /\ script = "discover_relay_pins" ->
             Target("d_done", "none", -1)
      [] p \in {"d_loop", "d_finally"} /\ script # "discover_relay_pins" ->
             Target("exited", "none", 1)
      [] p \in {"d_init", "d_done"} -> Target("exited", "none", 1)
      [] p \in {"g_setup", "g_intr"} -> Target("g_except", "none", -1)
      [] p = "loop" /\ script = "gpio_trigger_relays" -> Target("g_except", "none", -1)
      [] p = "loop" -> Target("finally", "none", -1)
      [] OTHER -> Target("finally", "KeyboardInterrupt", -1)

\* The main thread continues at target t; s is the shutdown history so far.
Jump(t, s) ==
    /\ pc' = t.pc
    /\ ip' = 0
    /\ pending' = t.pending
    /\ exit_code' = t.exit_code
    /\ sd' = IF t.pc \in ShutdownPcs THEN SdBegin(s) ELSE s

Step == ip' = ip + 1 /\ UNCHANGED <<pc, pending, exit_code>>

Running == pc # "exited"

\* ------------------------------------------------------------- RelayController
\* relay_on / relay_off run to completion by the main thread (the test modes, where no
\* other thread exists): range check, GPIO.output, then the state store.
\* v = TRUE is relay_on, v = FALSE is relay_off.
SetRelay(i, v) ==
    IF i \notin Channels
    THEN \* "Invalid relay index" is logged, nothing else happens
         UNCHANGED <<out, relay_states, mainv, sd>>
    ELSE IF ~OutputOk(relay_pins[i])
    THEN UNCHANGED <<out, relay_states, handler, sigint>> /\ Jump(OnException(pc), sd)
    ELSE /\ out' = [out EXCEPT ![relay_pins[i]] = LevelOf(v)]
         /\ IF i \in DOMAIN relay_states
            THEN /\ relay_states' = [relay_states EXCEPT ![i] = v]
                 /\ UNCHANGED <<handler, sigint, sd>>
                 /\ Step
            ELSE /\ UNCHANGED <<relay_states, handler, sigint>>
                 /\ Jump(OnException(pc), sd)

\* RelayController.__init__ -> setup_gpio: GPIO.setmode, then for each relay pin
\* GPIO.setup(pin, GPIO.OUT) and GPIO.output(pin, GPIO.HIGH).
setup_gpio ==
    /\ pc = "ctor"
    /\ UNCHANGED <<cfgv, relay_states, det, cbv, envv, obs, handler, sigint>>
    /\ IF ip = 0
       THEN /\ gpio_mode' = TRUE
            /\ UNCHANGED <<dir, out, sd>>
            /\ Step
       ELSE IF ip > 2 * NumRelays
       THEN /\ UNCHANGED <<gpio_mode, dir, out>>
            /\ Jump(Target("mode", "none", -1), SdInited(sd))
       ELSE LET pin == relay_pins[(ip + 1) \div 2] IN
            IF ip % 2 = 1
            THEN IF SetupOk(pin)
                 THEN /\ dir' = [dir EXCEPT ![pin] = "out"]
                      /\ UNCHANGED <<gpio_mode, out, sd>>
                      /\ Step
                 ELSE /\ UNCHANGED <<gpio_mode, dir, out>>
                      /\ Jump(OnException(pc), SdSetupFailed(sd))
            ELSE IF OutputOk(pin)
                 THEN /\ out' = [out EXCEPT ![pin] = LevelOf(FALSE)]
                      /\ UNCHANGED <<gpio_mode, dir, sd>>
                      /\ Step
                 ELSE /\ UNCHANGED <<gpio_mode, dir, out>>
                      /\ Jump(OnException(pc), SdSetupFailed(sd))

\* ------------------------------------------------------------- test patterns
Op(o, i, ph) == [op |-> o, ch |-> i, ph |-> ph]

RECURSIVE Repeat(_, _)
Repeat(n, seq) == IF n = 0 THEN <<>> ELSE seq \o Repeat(n - 1, seq)

all_relays_off_ops(n, ph) == [i \in 1..n |-> Op("off", i, ph)]

all_relays_on_ops(n, ph) == [i \in 1..n |-> Op("on", i, ph)]

\* for i in range(len(relay_pins)): relay_on(i); relay_off(i)
individual_ops(n) ==
    [j \in 1..(2 * n) |-> Op(IF j % 2 = 1 THEN "on" ELSE "off", (j + 1) \div 2, "individual")]

RECURSIVE sequential_ops(_, _)
\* for i in range(from-1, n): all_relays_off(); relay_on(i)
\* (Variant: relay_on(i) without the all_relays_off() before it.)
sequential_ops_MutNoOff(from, n) == [i \in 1..(n - from + 1) |-> Op("on", from + i - 1, "sequential")]

sequential_ops(from, n) ==
    IF from > n THEN <<>>
    ELSE all_relays_off_ops(n, "sequential") \o <<Op("on", from, "sequential")>>
         \o sequential_ops(from + 1, n)

\* run_simple_test: two cycles of relay 1 on/off, relay 2 on/off, then all on, all off.
run_simple_test_ops(n) ==
    Repeat(2, <<Op("on", 1, "individual"), Op("off", 1, "individual"),
                Op("on", 2, "individual"), Op("off", 2, "individual")>>)
    \o all_relays_on_ops(n, "all") \o all_relays_off_ops(n, "all")

\* run_self_test: all off; each relay on/off; two cycles of (all off, relay i on) for
\* each i; three cycles of all on, all off.
run_self_test_ops(n) ==
    all_relays_off_ops(n, "start")
    \o individual_ops(n)
    \o Repeat(2, sequential_ops(1, n))
    \o Repeat(3, all_relays_on_ops(n, "all") \o all_relays_off_ops(n, "all"))

TestOps ==
    IF script = "simple_test" THEN run_simple_test_ops(NumRelays)
    ELSE IF script = "self_test" THEN run_self_test_ops(NumRelays)
    ELSE <<>>

\* main: the mode function is entered (display_status and the banner prints).
main_dispatch ==
    /\ pc = "mode"
    /\ UNCHANGED <<cfgv, relay_states, hwv, cbv, envv, obs, handler, sigint>>
    /\ Jump(Target(IF script = "trigger_monitor" THEN "trig_setup" ELSE "body",
                   "none", -1), sd)

\* One relay_on / relay_off of the test pattern.
run_test_step ==
    /\ pc = "body"
    /\ ip < Len(TestOps)
    /\ UNCHANGED <<cfgv, gpio_mode, dir, det, cbv, envv, obs>>
    /\ SetRelay(TestOps[ip + 1].ch, TestOps[ip + 1].op = "on")

\* The test pattern is complete: the mode function returns into main's finally block.
run_test_return ==
    /\ pc = "body"
    /\ ip = Len(TestOps)
    /\ UNCHANGED <<cfgv, relay_states, hwv, cbv, envv, obs, handler, sigint>>
    /\ Jump(Target("finally", "none", -1), sd)

\* except KeyboardInterrupt of run_simple_test / run_self_test: all_relays_off(), then
\* the mode function returns into main's finally block.
except_all_relays_off ==
    /\ pc = "except_kbint"
    /\ UNCHANGED <<cfgv, gpio_mode, dir, det, cbv, envv, obs>>
    /\ IF ip < NumRelays
       THEN SetRelay(ip + 1, FALSE)
       ELSE /\ UNCHANGED <<out, relay_states, handler, sigint>>
            /\ Jump(Target("finally", "none", -1), sd)

\* ------------------------------------------------------------- trigger monitor
\* run_trigger_monitor up to its loop: setup_trigger_pins (GPIO.setup(pin, GPIO.IN,
\* pull_up_down=GPIO.PUD_UP) for each trigger pin), GPIO.add_event_detect for each
\* trigger pin, then signal.signal(SIGINT, signal_handler).
run_trigger_monitor_setup ==
    /\ pc = "trig_setup"
    /\ UNCHANGED <<cfgv, relay_states, gpio_mode, out, cbv, envv, obs, sigint>>
    /\ LET n == Len(trigger_pins) IN
       IF ip < n
       THEN IF SetupOk(trigger_pins[ip + 1])
            THEN /\ dir' = [dir EXCEPT ![trigger_pins[ip + 1]] = InputSetup]
                 /\ UNCHANGED <<det, handler, sd>>
                 /\ Step
            ELSE /\ UNCHANGED <<dir, det, handler>>
                 /\ Jump(OnException(pc), SdSetupFailed(sd))
       ELSE IF ip < 2 * n
       THEN IF EdgeDetectOk(ip - n + 1)
            THEN /\ det' = [det EXCEPT ![ip - n + 1] = TRUE]
                 /\ UNCHANGED <<dir, handler, sd>>
                 /\ Step
            ELSE /\ UNCHANGED <<dir, det, handler>>
                 /\ Jump(OnException(pc), SdSetupFailed(sd))
       ELSE /\ handler' = TRUE
            /\ UNCHANGED <<dir, det>>
            /\ Jump(Target("loop", "none", -1), sd)

\* ------------------------------------------------------------- SIGINT
\* The operator's stop request (Ctrl+C), delivered once, at any point of the main
\* thread. With signal_handler installed the handler runs (in the main thread);
\* otherwise KeyboardInterrupt is raised where the main thread stands.
SIGINT ==
    /\ Running
    /\ ~sigint
    /\ sigint' = TRUE
    /\ UNCHANGED <<cfgv, relay_states, hwv, cbv, envv, obs, handler>>
    /\ IF handler
       THEN Jump(Target(IF script = "gpio_trigger_relays" THEN "g_handler" ELSE "handler",
                        "none", -1), sd)
       ELSE Jump(OnKeyboardInterrupt(pc), IF sd.cur.active THEN SdEnd(sd, FALSE) ELSE sd)

\* ------------------------------------------------------------- RelayController.cleanup
\* cleanup() = all_relays_off() then GPIO.cleanup(). It runs in signal_handler
\* (pc = "handler") and in main's finally block (pc = "finally"). Each relay_off is
\* two steps, GPIO.output and the state store, because a trigger callback may run
\* in between.
cleanup_relay_output ==
    /\ pc \in {"handler", "finally"}
    /\ ip < 2 * NumRelays
    /\ ip % 2 = 0
    /\ UNCHANGED <<cfgv, relay_states, gpio_mode, dir, det, cbv, envv, obs, handler, sigint>>
    /\ LET i == ip \div 2 + 1 IN
       IF OutputOk(relay_pins[i])
       THEN /\ out' = [out EXCEPT ![relay_pins[i]] = "HIGH"]
            /\ sd' = SdWrote(sd, i)
            /\ Step
       ELSE /\ UNCHANGED out
            /\ Jump(OnException(pc), SdEnd(SdFail(sd, i), FALSE))

cleanup_relay_state ==
    /\ pc \in {"handler", "finally"}
    /\ ip < 2 * NumRelays
    /\ ip % 2 = 1
    /\ UNCHANGED <<cfgv, hwv, cbv, envv, obs, handler, sigint>>
    /\ LET i == ip \div 2 + 1 IN
       IF i \in DOMAIN relay_states
       THEN /\ relay_states' = [relay_states EXCEPT ![i] = FALSE]
            /\ UNCHANGED sd
            /\ Step
       ELSE /\ UNCHANGED relay_states
            /\ Jump(OnException(pc), SdEnd(sd, FALSE))

\* GPIO.cleanup()
cleanup_release ==
    /\ pc \in {"handler", "finally"}
    /\ ip = 2 * NumRelays
    /\ UNCHANGED <<cfgv, relay_states, cbv, envv, obs, handler, sigint>>
    /\ GPIO_cleanup
    /\ sd' = SdReleased(sd)
    /\ Step

\* cleanup() returns: in signal_handler sys.exit(0) follows, and the SystemExit unwinds
\* into main's finally block; in the finally block the process ends, with the pending
\* exception if there is one.
cleanup_return ==
    /\ pc \in {"handler", "finally"}
    /\ ip = 2 * NumRelays + 1
    /\ UNCHANGED <<cfgv, relay_states, hwv, cbv, envv, obs, handler, sigint>>
    /\ IF pc = "handler"
       THEN Jump(Target("finally", "SystemExit", -1), SdEnd(sd, TRUE))
       ELSE Jump(Target("exited", "none", IF pending = "KeyboardInterrupt" THEN 1 ELSE 0),
                 SdEnd(sd, TRUE))

\* ------------------------------------------------------------- gpio_trigger_relays
\* setup_gpio: setmode, the two trigger pins as pulled-up inputs, the two relay pins
\* as outputs, then both relay pins HIGH.
gt_setup_gpio ==
    /\ pc = "g_setup"
    /\ UNCHANGED <<cfgv, relay_states, det, cbv, envv, obs, handler, sigint>>
    /\ IF ip = 0
       THEN /\ gpio_mode' = TRUE
            /\ UNCHANGED <<dir, out, sd>>
            /\ Step
       ELSE IF ip \in 1..4
       THEN LET pin == IF ip <= 2 THEN trigger_pins[ip] ELSE relay_pins[ip - 2] IN
            IF SetupOk(pin)
            THEN /\ dir' = [dir EXCEPT ![pin] = IF ip <= 2 THEN InputSetup ELSE "out"]
                 /\ UNCHANGED <<gpio_mode, out, sd>>
                 /\ Step
            ELSE /\ UNCHANGED <<gpio_mode, dir, out>>
                 /\ Jump(OnException(pc), SdSetupFailed(sd))
       ELSE IF ip \in 5..6
       THEN IF OutputOk(relay_pins[ip - 4])
            THEN /\ out' = [out EXCEPT ![relay_pins[ip - 4]] = LevelOf(FALSE)]
                 /\ UNCHANGED <<gpio_mode, dir, sd>>
                 /\ Step
            ELSE /\ UNCHANGED <<gpio_mode, dir, out>>
                 /\ Jump(OnException(pc), SdSetupFailed(sd))
       ELSE /\ UNCHANGED <<gpio_mode, dir, out>>
            /\ Jump(Target("g_intr", "none", -1), SdInited(sd))

\* setup_interrupts: add_event_detect on both trigger pins; then main installs
\* signal_handler and enters its loop.
gt_setup_interrupts ==
    /\ pc = "g_intr"
    /\ UNCHANGED <<cfgv, relay_states, gpio_mode, dir, out, cbv, envv, obs, sigint>>
    /\ IF ip < Len(trigger_pins)
       THEN IF EdgeDetectOk(ip + 1)
            THEN /\ det' = [det EXCEPT ![ip + 1] = TRUE]
                 /\ UNCHANGED <<handler, sd>>
                 /\ Step
            ELSE /\ UNCHANGED <<det, handler>>
                 /\ Jump(OnException(pc), SdSetupFailed(sd))
       ELSE /\ handler' = TRUE
            /\ UNCHANGED det
            /\ Jump(Target("loop", "none", -1), sd)

\* cleanup_and_exit: GPIO.output(RELAY_1_PIN, HIGH), GPIO.output(RELAY_2_PIN, HIGH),
\* GPIO.cleanup(), sys.exit(0). It runs in signal_handler (pc = "g_handler") and in
\* main's except clauses (pc = "g_except"). The relay state globals are not written.
cleanup_and_exit_output ==
    /\ pc \in {"g_handler", "g_except"}
    /\ ip < NumRelays
    /\ UNCHANGED <<cfgv, relay_states, gpio_mode, dir, det, cbv, envv, obs, handler, sigint>>
    /\ LET i == ip + 1 IN
       IF OutputOk(relay_pins[i])
       THEN /\ out' = [out EXCEPT ![relay_pins[i]] = "HIGH"]
            /\ sd' = SdWrote(sd, i)
            /\ Step
       ELSE /\ UNCHANGED out
            /\ Jump(OnException(pc), SdEnd(SdFail(sd, i), FALSE))

cleanup_and_exit_release ==
    /\ pc \in {"g_handler", "g_except"}
    /\ ip = NumRelays
    /\ UNCHANGED <<cfgv, relay_states, cbv, envv, obs, handler, sigint>>
    /\ GPIO_cleanup
    /\ sd' = SdReleased(sd)
    /\ Step

\* sys.exit(0) at the end of cleanup_and_exit: no except clause of main catches it
cleanup_and_exit_exit ==
    /\ pc \in {"g_handler", "g_except"}
    /\ ip = NumRelays + 1
    /\ UNCHANGED <<cfgv, relay_states, hwv, cbv, envv, obs, handler, sigint>>
    /\ Jump(Target("exited", "none", 0), SdEnd(sd, TRUE))

\* ------------------------------------------------------------- trigger inputs
\* bouncetime=200: the callback is called for an edge only when more than 200 ms
\* passed since it was last called for this channel (or it never was).
\* (Variant without bouncetime: every edge is accepted.)
BounceAcceptMutNoBounce(k) == TRUE

BounceAccept(k) == since[k] > BounceTicks

\* if channel == trigger_pins[0]: toggle_relay(0) elif channel == trigger_pins[1]: toggle_relay(1)
\* (Variant: both triggers bound to the first relay.)
BoundChannelMutFirst(k) == 1

BoundChannel(k) == k

\* trigger_1_callback calls toggle_relay_1, trigger_2_callback calls toggle_relay_2
GtBoundChannel(k) == k

ChannelOf(k) == IF script = "gpio_trigger_relays" THEN GtBoundChannel(k) ELSE BoundChannel(k)

\* The trigger input is grounded: a falling edge. With edge detection registered and
\* the bounce time over, the callback starts (in its time.sleep(0.05)).
Fall(k) ==
    /\ Running
    /\ script \in TriggerScripts
    /\ trig[k] = "HIGH"
    /\ obs[k].total < MaxEdges
    /\ trig' = [trig EXCEPT ![k] = "LOW"]
    /\ obs' = [obs EXCEPT ![k] =
                 IF since[k] >= BounceTicks
                 THEN [total |-> @.total + 1, edges |-> 1, togs |-> 0, read |-> "none",
                       st0 |-> relay_states[ChannelOf(k)]]
                 ELSE [@ EXCEPT !.total = @ + 1, !.edges = @ + 1]]
    /\ IF det[k] /\ cb[k] = "idle" /\ BounceAccept(k)
       THEN /\ cb' = [cb EXCEPT ![k] = "sleep"]
            /\ settle' = [settle EXCEPT ![k] = SettleTicks]
            /\ since' = [since EXCEPT ![k] = 0]
       ELSE UNCHANGED <<cb, settle, since>>
    /\ UNCHANGED <<cfgv, relay_states, hwv, cbt, mainv, sd>>

\* The trigger input is released: the pull-up takes it high again.
Rise(k) ==
    /\ Running
    /\ script \in TriggerScripts
    /\ trig[k] = "LOW"
    /\ trig' = [trig EXCEPT ![k] = "HIGH"]
    /\ UNCHANGED <<cfgv, relay_states, hwv, cbv, since, mainv, obs, sd>>

\* 50 ms pass. A callback whose sleep is over runs before more time passes, and so
\* does a shutdown call that has started.
Tick ==
    /\ Running
    /\ script \in TriggerScripts
    /\ pc \notin ShutdownPcs
    /\ \A k \in Triggers : cb[k] = "idle" \/ (cb[k] = "sleep" /\ settle[k] > 0)
    /\ \E k \in Triggers : since[k] <= BounceTicks
    /\ since' = [k \in Triggers |-> IF since[k] <= BounceTicks THEN since[k] + 1 ELSE since[k]]
    /\ settle' = [k \in Triggers |-> IF settle[k] > 0 THEN settle[k] - 1 ELSE 0]
    /\ UNCHANGED <<cfgv, relay_states, hwv, cb, cbt, trig, mainv, obs, sd>>

\* ------------------------------------------------------------- trigger callbacks
\* if GPIO.input(pin) == GPIO.LOW
\* (Variant without the re-check: every callback toggles.)
ReadsLowMutAlways(k) == TRUE

ReadsLow(k) == trig[k] = "LOW"

\* toggle_relay: the state the relay is switched to
\* (Variant: the relay is rewritten with the state it has.)
ToggleTargetMutKeep(state) == state

ToggleTarget(state) == ~state

\* trigger_callback / trigger_N_callback after time.sleep(0.05): GPIO.input is read
\* again; LOW confirms the trigger, HIGH discards it. GPIO.input raises once the
\* lines are released, which ends the callback.
trigger_callback(k) ==
    /\ Running
    /\ cb[k] = "sleep"
    /\ settle[k] = 0
    /\ IF ~InputOk(trigger_pins[k])
       THEN /\ cb' = [cb EXCEPT ![k] = "idle"]
            /\ obs' = [obs EXCEPT ![k].read = "err"]
       ELSE /\ obs' = [obs EXCEPT ![k].read = trig[k]]
            /\ IF ReadsLow(k)
               THEN cb' = [cb EXCEPT ![k] = IF script = "gpio_trigger_relays"
                                            THEN "toggle_flip" ELSE "toggle_read"]
               ELSE cb' = [cb EXCEPT ![k] = "idle"]
    /\ UNCHANGED <<cfgv, relay_states, hwv, cbt, settle, envv, mainv, sd>>

\* RelayController.toggle_relay: if self.relay_states[relay_index]: relay_off else relay_on
toggle_relay(k) ==
    /\ Running
    /\ cb[k] = "toggle_read"
    /\ obs' = [obs EXCEPT ![k].togs = @ + 1]
    /\ IF BoundChannel(k) \in DOMAIN relay_states
       THEN /\ cbt' = [cbt EXCEPT ![k] = ToggleTarget(relay_states[BoundChannel(k)])]
            /\ cb' = [cb EXCEPT ![k] = "relay_output"]
       ELSE /\ cb' = [cb EXCEPT ![k] = "idle"]
            /\ UNCHANGED cbt
    /\ UNCHANGED <<cfgv, relay_states, hwv, settle, envv, mainv, sd>>

\* relay_on / relay_off called by toggle_relay: the range check and GPIO.output
relay_output(k) ==
    /\ Running
    /\ cb[k] = "relay_output"
    /\ LET i == BoundChannel(k) IN
       IF i \in Channels /\ OutputOk(relay_pins[i])
       THEN /\ out' = [out EXCEPT ![relay_pins[i]] = LevelOf(cbt[k])]
            /\ cb' = [cb EXCEPT ![k] = "relay_state"]
       ELSE /\ cb' = [cb EXCEPT ![k] = "idle"]
            /\ UNCHANGED out
    /\ UNCHANGED <<cfgv, relay_states, gpio_mode, dir, det, cbt, settle, envv, mainv, obs, sd>>

\* relay_on / relay_off called by toggle_relay: self.relay_states[relay_index] = ...
relay_state(k) ==
    /\ Running
    /\ cb[k] = "relay_state"
    /\ LET i == BoundChannel(k) IN
       IF i \in DOMAIN relay_states
       THEN relay_states' = [relay_states EXCEPT ![i] = cbt[k]]
       ELSE UNCHANGED relay_states
    /\ cb' = [cb EXCEPT ![k] = "idle"]
    /\ UNCHANGED <<cfgv, hwv, cbt, settle, envv, mainv, obs, sd>>

\* toggle_relay_N: relay_N_state = not relay_N_state
gt_toggle_flip(k) ==
    /\ Running
    /\ cb[k] = "toggle_flip"
    /\ relay_states' = [relay_states EXCEPT
                          ![GtBoundChannel(k)] = ToggleTarget(relay_states[GtBoundChannel(k)])]
    /\ cb' = [cb EXCEPT ![k] = "toggle_write"]
    /\ obs' = [obs EXCEPT ![k].togs = @ + 1]
    /\ UNCHANGED <<cfgv, hwv, cbt, settle, envv, mainv, sd>>

\* toggle_relay_N: GPIO.output(RELAY_N_PIN, LOW if relay_N_state else HIGH)
gt_toggle_write(k) ==
    /\ Running
    /\ cb[k] = "toggle_write"
    /\ LET i == GtBoundChannel(k) IN
       IF OutputOk(relay_pins[i])
       THEN out' = [out EXCEPT ![relay_pins[i]] = LevelOf(relay_states[i])]
       ELSE UNCHANGED out
    /\ cb' = [cb EXCEPT ![k] = "idle"]
    /\ UNCHANGED <<cfgv, relay_states, gpio_mode, dir, det, cbt, settle, envv, mainv, obs, sd>>

\* ------------------------------------------------------------- relay operations
\* The operations of RelayController (and toggle_relay_1 / toggle_relay_2 of
\* gpio_trigger_relays) as functions of the recorded states and the output latches.
\* A relay index is the Python index (0-based, possibly negative or too large).
\* The result records the exception the call raises, the log lines it emits and the
\* channels it writes, in order.
Indices == (0 - MaxIndex)..MaxIndex

Begin == [states |-> relay_states, out |-> out, raised |-> "none", log |-> <<>>,
          writes |-> <<>>]

\* if 0 <= relay_index < len(self.relay_pins)
IndexValid(pi) == 0 <= pi /\ pi < Len(relay_pins)

\* a[pi] of a Python list: negative indices count from the end, IndexError outside
ListIndexOk(a, pi) == (0 - Len(a)) <= pi /\ pi < Len(a)

ListAt(a, pi) == IF pi >= 0 THEN a[pi + 1] ELSE a[Len(a) + pi + 1]

\* Body shared by relay_on (v = TRUE) and relay_off (v = FALSE): the range check,
\* GPIO.output, the state store, the log line; else the "Invalid relay index" log line.
RelayWrite(s, pi, v) ==
    IF s.raised # "none" THEN s
    ELSE IF ~IndexValid(pi) THEN [s EXCEPT !.log = Append(@, "invalid")]
    ELSE LET pin == relay_pins[pi + 1] IN
         IF ~OutputOk(pin) THEN [s EXCEPT !.raised = "RuntimeError"]
         ELSE LET w == [s EXCEPT !.out[pin] = LevelOf(v), !.writes = Append(@, pi)] IN
              IF ListIndexOk(s.states, pi)
              THEN [w EXCEPT !.states[pi + 1] = v,
                             !.log = Append(@, IF v THEN "on" ELSE "off")]
              ELSE [w EXCEPT !.raised = "IndexError"]

\* (Variant of relay_on: the relay is switched to the opposite of its recorded state.)
relay_on_MutToggle(s, pi) ==
    RelayWrite(s, pi, IF IndexValid(pi) /\ ListIndexOk(s.states, pi) THEN ~s.states[pi + 1]
                      ELSE TRUE)

relay_on(s, pi) == RelayWrite(s, pi, TRUE)

\* (Variant of relay_off: the line is written, the recorded state is not.)
relay_off_MutNoStore(s, pi) == [RelayWrite(s, pi, FALSE) EXCEPT !.states = s.states]

relay_off(s, pi) == RelayWrite(s, pi, FALSE)

RECURSIVE ForRange(_, _, _)
\* for i in range(from, len(self.relay_pins)): relay_on(i) / relay_off(i)
ForRange(s, from, v) ==
    IF from >= Len(relay_pins) \/ s.raised # "none" THEN s
    ELSE ForRange(IF v THEN relay_on(s, from) ELSE relay_off(s, from), from + 1, v)

LogUnlessRaised(s, line) == IF s.raised # "none" THEN s ELSE [s EXCEPT !.log = Append(@, line)]

\* (Variant of all_relays_off: the loop starts at the second relay.)
all_relays_off_MutSkipFirst(s) == LogUnlessRaised(ForRange(s, 1, FALSE), "all_off")

all_relays_off(s) == LogUnlessRaised(ForRange(s, 0, FALSE), "all_off")

\* (Variant of all_relays_on: the relays are written in descending order.)
all_relays_on_MutDescending(s) == LogUnlessRaised(relay_on(relay_on(s, 1), 0), "all_on")

all_relays_on(s) == LogUnlessRaised(ForRange(s, 0, TRUE), "all_on")

\* RelayController.toggle_relay: if self.relay_states[relay_index]: relay_off(relay_index)
\* else: relay_on(relay_index)
\* (Variant: the relay is switched on whatever its recorded state.)
toggle_relay_index_MutOn(s, pi) == relay_on(s, pi)

toggle_relay_index(s, pi) ==
    IF ~ListIndexOk(s.states, pi) THEN [s EXCEPT !.raised = "IndexError"]
    ELSE IF ListAt(s.states, pi) THEN relay_off(s, pi) ELSE relay_on(s, pi)

\* toggle_relay_1 / toggle_relay_2 (pi = 0 / 1): the state global is negated, then
\* GPIO.output writes LOW if it is now true, HIGH otherwise, then the log line.
toggle_relay_N(s, pi) ==
    LET f == [s EXCEPT !.states[pi + 1] = ToggleTarget(s.states[pi + 1])]
        pin == relay_pins[pi + 1] IN
    IF ~OutputOk(pin) THEN [f EXCEPT !.raised = "RuntimeError"]
    ELSE [f EXCEPT !.out[pin] = LevelOf(f.states[pi + 1]), !.writes = Append(@, pi),
                   !.log = Append(@, IF f.states[pi + 1] THEN "on" ELSE "off")]

\* A client calls one operation, which runs to completion; r is its result. The record
\* keeps the state the call started from, and the operation, index and starting states
\* of the call before it.
Called(op, pi, r) ==
    /\ relay_states' = r.states
    /\ out' = r.out
    /\ call' = [seq |-> 1 - call.seq, op |-> op, idx |-> pi, raised |-> r.raised,
                log |-> r.log, writes |-> r.writes,
                pre |-> [states |-> relay_states, out |-> out],
                prev |-> [op |-> call.op, idx |-> call.idx, states |-> call.pre.states]]
    /\ UNCHANGED <<script, relay_pins, fault, cycles, disc, gpio_mode, dir, det, cbv, envv,
                   mainv, obs, sd>>

\* The controller is constructed (setup_gpio has returned) and used by a client.
ControllerReady == script = "relay_controller" /\ pc = "mode"

\* gpio_trigger_relays.setup_gpio has returned and its toggle functions are called.
ModuleReady == script = "gpio_trigger_relays" /\ pc = "g_intr" /\ ip = 0

call_relay_on(pi) == ControllerReady /\ Called("relay_on", pi, relay_on(Begin, pi))

call_relay_off(pi) == ControllerReady /\ Called("relay_off", pi, relay_off(Begin, pi))

call_toggle_relay(pi) ==
    ControllerReady /\ Called("toggle_relay", pi, toggle_relay_index(Begin, pi))

call_all_relays_on == ControllerReady /\ Called("all_relays_on", 0, all_relays_on(Begin))

call_all_relays_off == ControllerReady /\ Called("all_relays_off", 0, all_relays_off(Begin))

call_toggle_relay_N(pi) ==
    ModuleReady /\ pi \in {0, 1} /\ Called("toggle_relay_N", pi, toggle_relay_N(Begin, pi))

\* ------------------------------------------------------------- specification
Next ==
    \/ setup_gpio
    \/ main_dispatch
    \/ run_test_step
    \/ run_test_return
    \/ except_all_relays_off
    \/ run_trigger_monitor_setup
    \/ SIGINT
    \/ cleanup_relay_output
    \/ cleanup_relay_state
    \/ cleanup_release
    \/ cleanup_return
    \/ gt_setup_gpio
    \/ gt_setup_interrupts
    \/ cleanup_and_exit_output
    \/ cleanup_and_exit_release
    \/ cleanup_and_exit_exit
    \/ \E k \in Triggers : Fall(k)
    \/ \E k \in Triggers : Rise(k)
    \/ Tick
    \/ \E k \in Triggers : trigger_callback(k)
    \/ \E k \in Triggers : toggle_relay(k)
    \/ \E k \in Triggers : relay_output(k)
    \/ \E k \in Triggers : relay_state(k)
    \/ \E k \in Triggers : gt_toggle_flip(k)
    \/ \E k \in Triggers : gt_toggle_write(k)

Spec == Init /\ [][Next]_vars

\* ------------------------------------------------------------- pin overrides and host failures
\* main --pins RELAY1 RELAY2 (two integers, not validated): the default pins, the same
\* pin twice, a number that is no GPIO channel of the host, and the pin of a trigger
\* input.
PinConfigs(s) ==
    IF s \in ControllerScripts
    THEN {DefaultPins(s), <<RELAY_1_PIN, RELAY_1_PIN>>, <<RELAY_1_PIN, 99>>,
          <<TRIGGER_1_PIN, RELAY_2_PIN>>}
    ELSE {DefaultPins(s)}

CfgInit ==
    /\ script \in Scripts
    /\ relay_pins \in PinConfigs(script)
    /\ fault \in Faults
    /\ cycles = 2
    /\ InitCommon

CfgSpec == CfgInit /\ [][Next]_vars

\* ------------------------------------------------------------- relay operations, called directly
\* A client constructs the controller (or runs gpio_trigger_relays.setup_gpio) and then
\* calls the relay operations in any order, with any index.
ApiModules == {"relay_controller", "gpio_trigger_relays"}

ApiInit ==
    /\ script \in ApiModules
    /\ relay_pins = DefaultPins(script)
    /\ relay_states = <<FALSE, FALSE>>
    /\ gpio_mode = FALSE
    /\ dir = [p \in Pins |-> "none"]
    /\ out \in [Pins -> Level]
    /\ \A p \in Pins : p \notin {relay_pins[i] : i \in 1..Len(relay_pins)} => out[p] = "HIGH"
    /\ det = [k \in Triggers |-> FALSE]
    /\ trig = [k \in Triggers |-> "HIGH"]
    /\ since = [k \in Triggers |-> BounceTicks + 1]
    /\ settle = [k \in Triggers |-> 0]
    /\ cb = [k \in Triggers |-> "idle"]
    /\ cbt = [k \in Triggers |-> FALSE]
    /\ pc = IF script = "relay_controller" THEN "ctor" ELSE "g_setup"
    /\ ip = 0
    /\ handler = FALSE
    /\ sigint = FALSE
    /\ pending = "none"
    /\ exit_code = -1
    /\ obs = [k \in Triggers |-> ObsInit]
    /\ sd = SdInit
    /\ fault = "none"
    /\ call = NoApiCall
    /\ cycles = 2
    /\ disc = NoDiscovery

ApiNext ==
    \/ setup_gpio
    \/ gt_setup_gpio
    \/ \E pi \in Indices : call_relay_on(pi)
    \/ \E pi \in Indices : call_relay_off(pi)
    \/ \E pi \in Indices : call_toggle_relay(pi)
    \/ call_all_relays_on
    \/ call_all_relays_off
    \/ \E pi \in Indices : call_toggle_relay_N(pi)

ApiSpec == ApiInit /\ [][ApiNext]_vars

\* ------------------------------------------------------------- relay_self_test_2ch
\* RelayTester keeps no recorded states: relay_on / relay_off are the range check and
\* GPIO.output. Its main takes the relay pins from the command line, any number of them.
\* test_sequential_pattern(cycles): cycles times (for each relay: all off, relay on),
\* then all off; and all off once more at the end.
test_sequential_pattern_ops(n, c) ==
    Repeat(c, sequential_ops(1, n) \o all_relays_off_ops(n, "sequential"))
    \o all_relays_off_ops(n, "sequential")

\* run_comprehensive_test: all off; test_individual_relays; test_sequential_pattern;
\* test_all_on_off(cycles=3); all off. run_comprehensive_test passes cycles=2 to
\* test_sequential_pattern; the argument is left open here, as for a client that calls
\* the method itself.
run_comprehensive_test_ops(n, c) ==
    all_relays_off_ops(n, "start")
    \o individual_ops(n)
    \o test_sequential_pattern_ops(n, c)
    \o Repeat(3, all_relays_on_ops(n, "all") \o all_relays_off_ops(n, "all"))
    \o all_relays_off_ops(n, "end")

TesterOps == run_comprehensive_test_ops(NumRelays, cycles)

\* RelayTester.__init__ -> setup_gpio: GPIO.setmode, then for each relay pin
\* GPIO.setup(pin, GPIO.OUT) and GPIO.output(pin, GPIO.HIGH). An exception leaves main
\* with tester = None: the finally block calls no cleanup.
tester_setup_gpio ==
    /\ pc = "t_setup"
    /\ UNCHANGED <<cfgv, relay_states, det, cbv, envv, obs, handler, sigint>>
    /\ IF ip = 0
       THEN /\ gpio_mode' = TRUE
            /\ UNCHANGED <<dir, out, sd>>
            /\ Step
       ELSE IF ip > 2 * NumRelays
       THEN /\ UNCHANGED <<gpio_mode, dir, out>>
            /\ Jump(Target("t_body", "none", -1), SdInited(sd))
       ELSE LET pin == relay_pins[(ip + 1) \div 2] IN
            IF ip % 2 = 1
            THEN IF SetupOk(pin)
                 THEN /\ dir' = [dir EXCEPT ![pin] = "out"]
                      /\ UNCHANGED <<gpio_mode, out, sd>>
                      /\ Step
                 ELSE /\ UNCHANGED <<gpio_mode, dir, out>>
                      /\ Jump(Target("exited", "none", 0), SdSetupFailed(sd))
            ELSE IF OutputOk(pin)
                 THEN /\ out' = [out EXCEPT ![pin] = LevelOf(FALSE)]
                      /\ UNCHANGED <<gpio_mode, dir, sd>>
                      /\ Step
                 ELSE /\ UNCHANGED <<gpio_mode, dir, out>>
                      /\ Jump(Target("exited", "none", 0), SdSetupFailed(sd))

\* One relay_on / relay_off of run_comprehensive_test. An exception is caught by main's
\* except Exception, and the finally block runs cleanup().
tester_step ==
    /\ pc = "t_body"
    /\ ip < Len(TesterOps)
    /\ UNCHANGED <<cfgv, relay_states, gpio_mode, dir, det, cbv, envv, obs, handler, sigint>>
    /\ LET o == TesterOps[ip + 1] IN
       IF OutputOk(relay_pins[o.ch])
       THEN /\ out' = [out EXCEPT ![relay_pins[o.ch]] = LevelOf(o.op = "on")]
            /\ UNCHANGED sd
            /\ Step
       ELSE /\ UNCHANGED out
            /\ Jump(Target("t_finally", "none", -1), sd)

\* run_comprehensive_test returns into main's finally block.
tester_return ==
    /\ pc = "t_body"
    /\ ip = Len(TesterOps)
    /\ UNCHANGED <<cfgv, relay_states, hwv, cbv, envv, obs, handler, sigint>>
    /\ Jump(Target("t_finally", "none", -1), sd)

\* RelayTester.cleanup in main's finally block: all_relays_off(), GPIO.cleanup().
tester_cleanup ==
    /\ pc = "t_finally"
    /\ UNCHANGED <<cfgv, relay_states, cbv, envv, obs, handler, sigint>>
    /\ IF ip < NumRelays
       THEN IF OutputOk(relay_pins[ip + 1])
            THEN /\ out' = [out EXCEPT ![relay_pins[ip + 1]] = LevelOf(FALSE)]
                 /\ UNCHANGED <<gpio_mode, dir, det, sd>>
                 /\ Step
            ELSE /\ UNCHANGED hwv
                 /\ Jump(Target("exited", "none", 1), sd)
       ELSE /\ GPIO_cleanup
            /\ Jump(Target("exited", "none", 0), sd)

\* ------------------------------------------------------------- the self-tests, any number of relays
SelfTestScripts == {"self_test", "relay_self_test_2ch"}

\* Pins a caller adds after the default two.
SparePins(s) ==
    IF s = "relay_self_test_2ch" THEN <<RELAY_1_PIN, RELAY_2_PIN>>
    ELSE <<GT_RELAY_1_PIN, GT_RELAY_2_PIN>>

\* relay_pins lists of 1..MaxRelays distinct pins: the argument of RelayController(...)
\* and the command line of relay_self_test_2ch.
RelayLists(s) == {SubSeq(DefaultPins(s) \o SparePins(s), 1, n) : n \in 1..MaxRelays}

SelfTestInit ==
    /\ script \in SelfTestScripts
    /\ relay_pins \in RelayLists(script)
    /\ fault = "none"
    /\ cycles \in (IF script = "relay_self_test_2ch" THEN 0..MaxCycles ELSE {2})
    /\ InitCommon

SelfTestNext ==
    \/ setup_gpio
    \/ main_dispatch
    \/ run_test_step
    \/ run_test_return
    \/ except_all_relays_off
    \/ SIGINT
    \/ cleanup_relay_output
    \/ cleanup_relay_state
    \/ cleanup_release
    \/ cleanup_return
    \/ tester_setup_gpio
    \/ tester_step
    \/ tester_return
    \/ tester_cleanup

SelfTestSpec == SelfTestInit /\ [][SelfTestNext]_vars

\* ------------------------------------------------------------- RelayController(relay_pins)
\* self.relay_pins = relay_pins or [RELAY_1_PIN, RELAY_2_PIN]: an empty list is
\* replaced by the default pins, like None.
ListOrDefault(l) == IF l = <<>> THEN DefaultPins("relay_controller") ELSE l

\* The lists a client gives to the constructor: 0..MaxRelays distinct pins.
CtorLists == {ListOrDefault(l) : l \in RelayLists("relay_controller") \cup {<<>>}}

\* A client calls cleanup(): all_relays_off(), then GPIO.cleanup() unless that raised.
call_cleanup ==
    /\ ControllerReady
    /\ LET r == all_relays_off(Begin) IN
       /\ relay_states' = r.states
       /\ out' = r.out
       /\ call' = [seq |-> 1 - call.seq, op |-> "cleanup", idx |-> 0, raised |-> r.raised,
                   log |-> r.log, writes |-> r.writes,
                   pre |-> [states |-> relay_states, out |-> out],
                   prev |-> [op |-> call.op, idx |-> call.idx, states |-> call.pre.states]]
       /\ IF r.raised = "none"
          THEN /\ dir' = [p \in Pins |-> "none"]
               /\ gpio_mode' = FALSE
               /\ det' = [k \in Triggers |-> FALSE]
          ELSE UNCHANGED <<dir, gpio_mode, det>>
    /\ UNCHANGED <<script, relay_pins, fault, cycles, disc, cbv, envv, mainv, obs, sd>>

CtorInit ==
    /\ script = "relay_controller"
    /\ relay_pins \in CtorLists
    /\ fault = "none"
    /\ cycles = 2
    /\ InitCommon

CtorNext ==
    \/ setup_gpio
    \/ \E pi \in Indices : call_relay_on(pi)
    \/ \E pi \in Indices : call_relay_off(pi)
    \/ call_all_relays_off
    \/ call_cleanup

CtorSpec == CtorInit /\ [][CtorNext]_vars

\* ------------------------------------------------------------- pin discovery
\* PinDiscovery.discover_pins (relay_controller.py --discover) tests single pins;
\* discover_relay_pins.py tests pairs of pins. A candidate is a list of pins.
DiscoveryScripts == {"discover", "discover_relay_pins"}

Candidates ==
    IF script = "discover_relay_pins" THEN COMMON_CONFIGS
    ELSE [i \in 1..(Len(prime_suspects) + Len(additional_pins)) |->
             <<(prime_suspects \o additional_pins)[i]>>]

Gpio(o, p, l) == [op |-> o, pin |-> p, level |-> l]

\* test_individual_pin, inside its try: setup, HIGH, LOW, HIGH, then input()
test_individual_pin_steps(pin) ==
    <<Gpio("setup", pin, "none"), Gpio("out", pin, "HIGH"), Gpio("out", pin, "LOW"),
      Gpio("out", pin, "HIGH"), Gpio("input", pin, "none")>>

\* test_pin_config, inside its try: setup and HIGH for each pin; LOW, HIGH for each
\* pin; LOW for each pin, HIGH for each pin; then input()
test_pin_config_steps(pins) ==
    LET n == Len(pins) IN
    [j \in 1..(2 * n) |-> IF j % 2 = 1 THEN Gpio("setup", pins[(j + 1) \div 2], "none")
                          ELSE Gpio("out", pins[j \div 2], "HIGH")]
    \o [j \in 1..(2 * n) |-> Gpio("out", pins[(j + 1) \div 2],
                                   IF j % 2 = 1 THEN "LOW" ELSE "HIGH")]
    \o [j \in 1..n |-> Gpio("out", pins[j], "LOW")]
    \o [j \in 1..n |-> Gpio("out", pins[j], "HIGH")]
    \o <<Gpio("input", pins[1], "none")>>

TestSteps(cand) ==
    IF script = "discover_relay_pins" THEN test_pin_config_steps(cand)
    ELSE test_individual_pin_steps(cand[1])

\* finally: GPIO.output(pin, GPIO.HIGH) for the pins of the candidate ("Ensure OFF")
\* (Variant: no finally block.)
EnsureOffMutNone(cand) == <<>>

EnsureOff(cand) == cand

\* if len(working_pins) >= 2: break / if len(working_pins) < 2: in discover_pins;
\* if test_pin_config(...): ... break in discover_relay_pins.main
\* (Variant: the search never stops early.)
NeedMoreMutAlways(w) == TRUE

NeedMore(w) == IF script = "discover_relay_pins" THEN w = <<>> ELSE Len(w) < 2

InList(p, w) == \E i \in DOMAIN w : w[i] = p

\* The candidates after position idx that the loops would still test: every prime
\* suspect, and every additional pin that is not in working_pins.
Remaining(idx, w) ==
    {j \in (idx + 1)..Len(Candidates) :
        script = "discover" /\ j > Len(prime_suspects) => ~InList(Candidates[j][1], w)}

Min(S) == CHOOSE x \in S : \A y \in S : x <= y

\* PinDiscovery.__init__ / discover_relay_pins.setup_gpio: GPIO.setmode(GPIO.BCM)
discovery_setup ==
    /\ pc = "d_init"
    /\ gpio_mode' = TRUE
    /\ UNCHANGED <<cfgv, relay_states, dir, out, det, cbv, envv, obs, handler, sigint>>
    /\ Jump(Target("d_loop", "none", -1), sd)

\* The loops over the candidates: the next candidate is tested, or the search ends.
discovery_next ==
    /\ pc = "d_loop"
    /\ UNCHANGED <<script, relay_pins, fault, call, cycles, relay_states, hwv, cbv, envv, obs,
                   handler, sigint>>
    /\ IF NeedMore(disc.working) /\ Remaining(disc.idx, disc.working) # {}
       THEN /\ disc' = [disc EXCEPT !.idx = Min(Remaining(disc.idx, disc.working)),
                                    !.resp = FALSE]
            /\ Jump(Target("d_test", "none", -1), sd)
       ELSE /\ UNCHANGED disc
            /\ Jump(Target("d_done", "none", -1), sd)

\* One GPIO call of the test of the current candidate. A call that raises is caught
\* by except Exception: the test will return False.
discovery_test_step ==
    /\ pc = "d_test"
    /\ LET o == TestSteps(Candidates[disc.idx])[ip + 1] IN
       /\ o.op # "input"
       /\ UNCHANGED <<cfgv, relay_states, gpio_mode, det, cbv, envv, obs, handler, sigint>>
       /\ IF o.op = "setup"
          THEN IF SetupOk(o.pin)
               THEN /\ dir' = [dir EXCEPT ![o.pin] = "out"]
                    /\ UNCHANGED <<out, sd>>
                    /\ Step
               ELSE /\ UNCHANGED <<dir, out>>
                    /\ Jump(Target("d_finally", "none", -1), sd)
          ELSE IF OutputOk(o.pin)
               THEN /\ out' = [out EXCEPT ![o.pin] = o.level]
                    /\ UNCHANGED <<dir, sd>>
                    /\ Step
               ELSE /\ UNCHANGED <<dir, out>>
                    /\ Jump(Target("d_finally", "none", -1), sd)

\* input(...): the operator answers yes or no, or the input is at its end (EOFError,
\* caught by except Exception). The test will return response.startswith('y').
discovery_answer(a) ==
    /\ pc = "d_test"
    /\ TestSteps(Candidates[disc.idx])[ip + 1].op = "input"
    /\ disc' = [disc EXCEPT !.resp = (a = "y"),
                            !.confirmed = IF a = "y" THEN Append(@, disc.idx) ELSE @]
    /\ UNCHANGED <<script, relay_pins, fault, call, cycles, relay_states, hwv, cbv, envv, obs,
                   handler, sigint>>
    /\ Jump(Target("d_finally", "none", -1), sd)

\* The finally block of the test: one GPIO.output(pin, GPIO.HIGH).
discovery_finally ==
    /\ pc = "d_finally"
    /\ ip < Len(EnsureOff(Candidates[disc.idx]))
    /\ OutputOk(EnsureOff(Candidates[disc.idx])[ip + 1])
    /\ out' = [out EXCEPT ![EnsureOff(Candidates[disc.idx])[ip + 1]] = "HIGH"]
    /\ UNCHANGED <<cfgv, relay_states, gpio_mode, dir, det, cbv, envv, obs, handler, sigint, sd>>
    /\ Step

\* The finally block is over (every pin written, or a GPIO.output raised and the bare
\* except passed): a KeyboardInterrupt goes on to the caller, else the test returns
\* and the caller appends the pin (sets working_config) if it returned True.
discovery_test_return ==
    /\ pc = "d_finally"
    /\ ~(/\ ip < Len(EnsureOff(Candidates[disc.idx]))
         /\ OutputOk(EnsureOff(Candidates[disc.idx])[ip + 1]))
    /\ UNCHANGED <<script, relay_pins, fault, call, cycles, relay_states, hwv, cbv, envv, obs,
                   handler, sigint>>
    /\ IF pending = "KeyboardInterrupt"
       THEN /\ UNCHANGED disc
            /\ Jump(IF script = "discover_relay_pins" THEN Target("d_done", "none", -1)
                    ELSE Target("exited", "none", 1), sd)
       ELSE /\ disc' = [disc EXCEPT
                          !.tested = Append(@, disc.idx),
                          !.working = IF ~disc.resp THEN @
                                      ELSE IF script = "discover_relay_pins"
                                      THEN Candidates[disc.idx]
                                      ELSE Append(@, Candidates[disc.idx][1])]
            /\ Jump(Target("d_loop", "none", -1), sd)

\* GPIO.cleanup(), then discover_pins returns working_pins[:2] (discover_relay_pins:
\* main ends); the process exits.
discovery_finish ==
    /\ pc = "d_done"
    /\ GPIO_cleanup
    /\ disc' = [disc EXCEPT !.returned = ~sigint,
                            !.result = IF sigint THEN <<>>
                                       ELSE SubSeq(disc.working, 1,
                                                   IF Len(disc.working) < 2
                                                   THEN Len(disc.working) ELSE 2)]
    /\ UNCHANGED <<script, relay_pins, fault, call, cycles, relay_states, cbv, envv, obs,
                   handler, sigint>>
    /\ Jump(Target("exited", "none", 0), sd)

DiscoveryInit ==
    /\ script \in DiscoveryScripts
    /\ relay_pins = DefaultPins(script)
    /\ fault \in {"none", "no_access"}
    /\ cycles = 2
    /\ InitCommon

DiscoveryNext ==
    \/ discovery_setup
    \/ discovery_next
    \/ discovery_test_step
    \/ \E a \in {"y", "n", "eof"} : discovery_answer(a)
    \/ discovery_finally
    \/ discovery_test_return
    \/ discovery_finish
    \/ SIGINT

DiscoverySpec == DiscoveryInit /\ [][DiscoveryNext]_vars

\* ------------------------------------------------------------- properties
TypeOK ==
    /\ script \in Scripts \cup ApiModules \cup SelfTestScripts \cup DiscoveryScripts
    /\ relay_states \in Seq(BOOLEAN)
    /\ gpio_mode \in BOOLEAN
    /\ dir \in [Pins -> {"none", "in", "in_pullup", "out"}]
    /\ out \in [Pins -> Level]
    /\ det \in [Triggers -> BOOLEAN]
    /\ trig \in [Triggers -> Level]
    /\ since \in [Triggers -> 0..(BounceTicks + 1)]
    /\ settle \in [Triggers -> 0..SettleTicks]
    /\ cb \in [Triggers -> {"idle", "sleep", "toggle_read", "relay_output", "relay_state",
                             "toggle_flip", "toggle_write"}]
    /\ pc \in {"ctor", "mode", "body", "except_kbint", "trig_setup", "loop", "handler",
                "finally", "g_setup", "g_intr", "g_handler", "g_except", "exited",
                "t_setup", "t_body", "t_finally", "d_init", "d_loop", "d_test", "d_finally",
                "d_done"}
    /\ exit_code \in {-1, 0, 1}
    /\ fault \in Faults
    /\ (pc = "exited") = (exit_code # -1)
    /\ \A k \in Triggers : since[k] > BounceTicks => cb[k] = "idle"

RelayPin(i) == relay_pins[i]

\* No operation is in progress: the controller is initialized, no callback is past its
\* re-check, and the main thread is not inside a shutdown call.
Quiescent ==
    /\ sd.inited
    /\ \A k \in Triggers : cb[k] \in {"idle", "sleep"}
    /\ pc \notin ShutdownPcs \cup {"except_kbint"}

\* C1: on every exit path (normal completion, SIGINT, an exception in the main flow)
\* every relay line has been released and no relay is left energized when the process
\* terminates.
C1_EveryExitReleasesRelays ==
    pc = "exited" =>
        \A i \in Channels : dir[RelayPin(i)] # "out" /\ ~Energized(RelayPin(i))

\* C2: a shutdown call made after a shutdown call has completed raises no error.
C2_SecondShutdownRaisesNothing ==
    \A c \in {sd.cur, sd.last} : c.done0 >= 1 => c.failed = {}

\* C3: whenever no operation is in progress, the recorded state of every channel is
\* true exactly when the last level written to its output is LOW.
C3_StateMirrorsOutput ==
    Quiescent =>
        \A i \in Channels : relay_states[i] = (out[RelayPin(i)] = "LOW")

\* C4: after initialization, and after any completed shutdown, every channel's
\* recorded state is false.
C4_StateFalseAfterInitAndShutdown ==
    /\ (sd.inited /\ ip = 0 /\ pc \in {"mode", "g_intr"}) =>
           \A i \in DOMAIN relay_states : ~relay_states[i]
    /\ sd.done >= 1 => \A i \in DOMAIN relay_states : ~relay_states[i]

\* C5: a single accepted falling edge whose input reads LOW at the re-check makes
\* exactly one toggle call; once the callback is back to idle the bound channel's
\* state is flipped and its output follows (as long as no shutdown has started).
C5_SingleEdgeOneToggle ==
    \A k \in Triggers :
        (obs[k].edges = 1 /\ obs[k].read = "LOW") =>
            /\ obs[k].togs <= 1
            /\ cb[k] \in {"toggle_read", "toggle_flip"} => obs[k].togs = 0
            /\ cb[k] \notin {"toggle_read", "toggle_flip"} => obs[k].togs = 1
            /\ (cb[k] = "idle" /\ sd.calls = 0) =>
                   /\ relay_states[ChannelOf(k)] = ~obs[k].st0
                   /\ out[RelayPin(ChannelOf(k))] = LevelOf(~obs[k].st0)

C5_Witness ==
    \E k \in Triggers :
        /\ obs[k].edges = 1 /\ obs[k].read = "LOW" /\ obs[k].togs = 1
        /\ cb[k] = "idle" /\ sd.calls = 0

\* C6: an accepted falling edge whose input reads HIGH at the re-check makes no toggle
\* call, the callback is back to idle, and the bound channel's state and output are
\* as they were at the edge (as long as no shutdown has started).
C6_BounceNoToggle ==
    \A k \in Triggers :
        obs[k].read = "HIGH" =>
            /\ obs[k].togs = 0
            /\ cb[k] = "idle"
            /\ sd.calls = 0 =>
                   /\ relay_states[ChannelOf(k)] = obs[k].st0
                   /\ out[RelayPin(ChannelOf(k))] = LevelOf(obs[k].st0)

C6_Witness ==
    \E k \in Triggers :
        /\ obs[k].read = "HIGH" /\ obs[k].edges >= 1 /\ cb[k] = "idle"
        /\ sd.calls = 0 /\ det[k]

\* C7: when a second falling edge arrives less than the re-arm interval after an
\* accepted one that was confirmed, the two edges make exactly one toggle call.
C7_TwoEdgesOneToggle ==
    \A k \in Triggers :
        (obs[k].edges >= 2 /\ obs[k].read = "LOW") =>
            /\ obs[k].togs <= 1
            /\ cb[k] = "idle" => obs[k].togs = 1

C7_Witness ==
    \E k \in Triggers :
        /\ obs[k].edges = 2 /\ obs[k].read = "LOW" /\ obs[k].togs = 1
        /\ cb[k] = "idle" /\ trig[k] = "LOW" /\ since[k] >= SettleTicks
        /\ sd.calls = 0

\* C8: a shutdown call in which the write of one channel failed has still attempted
\* the write of every other channel whose line is an output, and has still released
\* the lines (GPIO.cleanup() was called, or no relay line is left an output).
C8_ShutdownIsolatesFailures ==
    sd.last.failed # {} =>
        /\ \A j \in Channels \ sd.last.failed :
               dir[RelayPin(j)] = "out" => j \in sd.last.attempt
        /\ sd.last.released \/ \A j \in Channels : dir[RelayPin(j)] # "out"

\* C9: once shutdown has driven a relay off, nothing drives it on again.
C9_NoReenergizeAfterShutdown ==
    [][\A i \in Channels :
          (i \in sd.off /\ out[RelayPin(i)] = "HIGH") => out'[RelayPin(i)] = "HIGH"]_vars

\* C10: the steps of the callback of trigger k after its re-check leave the recorded
\* state and the output level of every other channel unchanged.
C10_ToggleTouchesOwnChannel ==
    [][\A k \in Triggers :
          (cb[k] \notin {"idle", "sleep"} /\ cb'[k] # cb[k]) =>
              \A j \in Channels \ {k} :
                  /\ relay_states'[j] = relay_states[j]
                  /\ out'[RelayPin(j)] = out[RelayPin(j)]]_vars

\* Both callbacks are in the middle of their toggle at the same time.
C10_Witness ==
    /\ \A k \in Triggers : obs[k].read = "LOW" /\ obs[k].togs = 1
    /\ \A k \in Triggers : cb[k] \in {"relay_state", "toggle_write"}
    /\ sd.calls = 0

\* C11: a relay_on / relay_off / toggle_relay call with an index outside
\* 0..(number of channels - 1) raises IndexError and changes no recorded state and no
\* output level.
C11_InvalidIndexRaisesIndexError ==
    (call.op \in {"relay_on", "relay_off", "toggle_relay"} /\ ~IndexValid(call.idx)) =>
        /\ call.raised = "IndexError"
        /\ relay_states = call.pre.states
        /\ out = call.pre.out

\* C12: a controller whose two channels name the same output pin is never initialized
\* (the constructor does not return), and when its construction has failed no line has
\* been made an output.
C12_DuplicatePinsRejected ==
    (script \in ControllerScripts /\ relay_pins[1] = relay_pins[2] /\ fault = "none"
     /\ ~sigint) =>
        /\ ~sd.inited
        /\ pc = "exited" => \A p \in Pins : dir[p] # "out"

\* C13: once a setup call of RPi.GPIO has raised, the main flow starts neither a test
\* pattern nor the monitoring loop and installs no stop handler, and when the process
\* has ended no line is left driven at the energized level (stop requests aside).
C13_SetupFailureAborts ==
    (sd.setup_failed /\ ~sigint) =>
        /\ pc \notin {"body", "except_kbint", "loop"}
        /\ ~handler
        /\ pc = "exited" => \A p \in Pins : ~Energized(p)

\* Setup failed on the second relay pin after the first was configured, and the
\* process has ended.
C13_Witness ==
    /\ sd.setup_failed /\ ~sigint /\ pc = "exited"
    /\ \E p \in Pins : dir[p] = "out"

\* C14: when the process has ended, its exit code is nonzero if a setup call of
\* RPi.GPIO raised, and 0 otherwise: on completion of the test pattern and on a stop
\* request taken by the installed stop handler.
C14_ExitCodes ==
    pc = "exited" =>
        /\ sd.setup_failed => exit_code # 0
        /\ (~sd.setup_failed /\ (sigint => handler)) => exit_code = 0

\* The last call was op(idx) and the call before it was prevop(idx), same index.
CallAfter(op, prevop) ==
    call.op = op /\ call.prev.op = prevop /\ call.prev.idx = call.idx

\* The state the last call started from, as the argument of a relay operation.
BeforeCall == [states |-> call.pre.states, out |-> call.pre.out, raised |-> "none",
               log |-> <<>>, writes |-> <<>>]

\* C15: for every valid index i and every prior state, after relay_on(i) followed
\* immediately by relay_off(i) the recorded state of channel i is false and its output
\* is HIGH, and neither call raised.
C15_OnThenOff ==
    (CallAfter("relay_off", "relay_on") /\ IndexValid(call.idx)) =>
        /\ call.raised = "none"
        /\ ~relay_states[call.idx + 1]
        /\ out[RelayPin(call.idx + 1)] = "HIGH"

\* relay_on(i) then relay_off(i) on a channel that was off before the relay_on.
C15_Witness ==
    /\ CallAfter("relay_off", "relay_on") /\ IndexValid(call.idx)
    /\ ~call.prev.states[call.idx + 1]
    /\ call.pre.states[call.idx + 1]

\* C16: the second of two relay_on(i) calls in a row, or of two relay_off(i) calls in a
\* row, changes no recorded state and no output level, and still emits its log line.
C16_SetIsIdempotent ==
    (CallAfter("relay_on", "relay_on") \/ CallAfter("relay_off", "relay_off")) =>
        /\ relay_states = call.pre.states
        /\ out = call.pre.out
        /\ Len(call.log) = 1

\* relay_on(i) twice on a channel that was off before the first call.
C16_Witness ==
    /\ CallAfter("relay_on", "relay_on") /\ IndexValid(call.idx)
    /\ ~call.prev.states[call.idx + 1]
    /\ relay_states[call.idx + 1]

\* C17: after all_relays_off() every recorded state is false and every relay output is
\* HIGH, whatever the states were before; a second all_relays_off() changes nothing.
C17_AllOff ==
    call.op = "all_relays_off" =>
        /\ call.raised = "none"
        /\ \A i \in Channels : ~relay_states[i] /\ out[RelayPin(i)] = "HIGH"
        /\ call.prev.op = "all_relays_off" =>
               relay_states = call.pre.states /\ out = call.pre.out

\* all_relays_off() twice, the first one with both relays on.
C17_Witness ==
    /\ call.op = "all_relays_off" /\ call.prev.op = "all_relays_off"
    /\ \A i \in Channels : call.prev.states[i]

\* C18: toggle_relay(index) with a valid index (toggle_relay_1 / toggle_relay_2 alike)
\* leaves the recorded states and the output levels that setting the channel to the
\* negation of its recorded state leaves.
C18_ToggleIsSetNegation ==
    (call.op \in {"toggle_relay", "toggle_relay_N"} /\ IndexValid(call.idx)) =>
        LET set == RelayWrite(BeforeCall, call.idx, ~call.pre.states[call.idx + 1]) IN
        /\ relay_states = set.states
        /\ out = set.out
        /\ call.raised = set.raised
        /\ \A j \in Channels \ {call.idx + 1} :
               relay_states[j] = call.pre.states[j]
               /\ out[RelayPin(j)] = call.pre.out[RelayPin(j)]

\* toggle_relay on a relay that was on, while the other relay was on too.
C18_Witness ==
    /\ call.op = "toggle_relay" /\ IndexValid(call.idx)
    /\ \A i \in Channels : call.pre.states[i]

\* C19: all_relays_on() and all_relays_off() write the channels in ascending index
\* order, each exactly once, and leave every channel in the commanded state whatever
\* the states of the channels were before.
C19_AscendingOrder ==
    call.op \in {"all_relays_on", "all_relays_off"} =>
        /\ call.writes = [i \in Channels |-> i - 1]
        /\ \A i \in Channels :
               /\ relay_states[i] = (call.op = "all_relays_on")
               /\ out[RelayPin(i)] = LevelOf(call.op = "all_relays_on")

\* all_relays_on() from a state in which the two relays differed.
C19_Witness ==
    /\ call.op = "all_relays_on"
    /\ call.pre.states[1] # call.pre.states[2]

\* C20: when initialization completes every relay line is an output at the HIGH level,
\* and falling-edge detection is registered on a trigger input only while that input
\* is set up as an input with its pull-up on.
C20_InitializedLines ==
    /\ (sd.inited /\ ip = 0 /\ pc \in {"mode", "g_intr"}) =>
           \A i \in Channels : dir[RelayPin(i)] = "out" /\ out[RelayPin(i)] = "HIGH"
    /\ \A k \in Triggers : det[k] => dir[trigger_pins[k]] = "in_pullup"

\* The trigger monitor has reached its loop with detection registered on both inputs.
C20_Witness ==
    /\ pc = "loop" /\ sd.inited
    /\ \A k \in Triggers : det[k]

\* C21: a falling edge that follows an edge discarded at the re-check (the callback read
\* HIGH and made no toggle call) is handed to the callback, however soon after the
\* discarded edge it arrives: only a confirmed trigger blocks the edges that follow it.
C21_DiscardedEdgeStartsNoWindow ==
    [][\A k \in Triggers :
          (/\ det[k] /\ cb[k] = "idle" /\ sd.calls = 0
           /\ obs[k].read = "HIGH" /\ obs[k].togs = 0
           /\ trig[k] = "HIGH" /\ trig'[k] = "LOW") => cb'[k] = "sleep"]_vars

\* The operations of the test the main thread is running, and how many it has done.
RunningOps ==
    IF pc = "body" THEN TestOps ELSE IF pc = "t_body" THEN TesterOps ELSE <<>>

\* The main thread is in the sequential pattern phase: its last operation, or its next
\* one, belongs to the sequential loop.
InSequentialPhase ==
    \/ ip >= 1 /\ ip <= Len(RunningOps) /\ RunningOps[ip].ph = "sequential"
    \/ ip < Len(RunningOps) /\ RunningOps[ip + 1].ph = "sequential"

\* C22: during the sequential pattern phase of the self-test (run_self_test,
\* RelayTester.test_sequential_pattern) at most one relay line is energized, for every
\* number of relays and of cycles.
C22_SequentialOneAtATime ==
    InSequentialPhase => Cardinality({p \in Pins : Energized(p)}) <= 1

\* The last relay of a three-relay tester is on, in the last cycle of the pattern.
C22_Witness ==
    /\ pc = "t_body" /\ InSequentialPhase
    /\ NumRelays = MaxRelays /\ cycles = MaxCycles
    /\ Energized(relay_pins[NumRelays])
    /\ RunningOps[ip + 1].ph = "sequential" /\ RunningOps[ip + NumRelays + 1].ph = "sequential"
    /\ RunningOps[ip + 2 * NumRelays + 1].ph = "all"

\* C23: when discover_pins has returned, the candidates were tested in list order (all
\* prime suspects before any additional pin), each at most once; its result is the
\* operator-confirmed pins in testing order, at most two and distinct; no candidate
\* was tested after the second confirmation; and with fewer than two confirmations
\* every one of the 16 candidates was tested.
C23_FirstTwoConfirmed ==
    (script = "discover" /\ disc.returned) =>
        LET n == Len(disc.tested)
            c == Len(disc.confirmed) IN
        /\ disc.tested = [i \in 1..n |-> i]
        /\ c <= 2
        /\ disc.result = [i \in 1..c |-> (prime_suspects \o additional_pins)[disc.confirmed[i]]]
        /\ \A i, j \in 1..Len(disc.result) : disc.result[i] = disc.result[j] => i = j
        /\ c = 2 => disc.tested[n] = disc.confirmed[2]
        /\ c < 2 => n = Len(prime_suspects) + Len(additional_pins)

\* The operator confirmed one prime suspect and, later, one additional pin.
C23_Witness ==
    /\ script = "discover" /\ disc.returned /\ Len(disc.confirmed) = 2
    /\ disc.confirmed[1] <= Len(prime_suspects)
    /\ disc.confirmed[2] > Len(prime_suspects) + 1
    /\ Len(disc.result) = 2

\* C24: between the tests of two candidates, and when the discovery has ended, no line
\* is driven at the energized level: every pin a test drove has been written back to
\* HIGH, whether the operator answered yes or no or the test ended with an error.
C24_TestedPinsOff ==
    (script \in DiscoveryScripts /\ pc \in {"d_loop", "d_done", "exited"}) =>
        \A p \in Pins : ~Energized(p)

\* A pair of pins was tested, the operator did not confirm it, and both lines are
\* still outputs.
C24_Witness ==
    /\ script = "discover_relay_pins" /\ pc = "d_loop" /\ disc.idx >= 2
    /\ disc.tested # <<>> /\ ~disc.resp
    /\ \A i \in 1..2 : dir[COMMON_CONFIGS[disc.idx][i]] = "out"
                       /\ out[COMMON_CONFIGS[disc.idx][i]] = "HIGH"

\* C25: from the moment the controller is initialized until GPIO.cleanup() releases the
\* lines, every configured relay line is an output: no relay line is reconfigured as a
\* trigger input.
C25_RelayLinesStayOutputs ==
    (script \in ControllerScripts /\ sd.inited /\ gpio_mode) =>
        \A i \in Channels : dir[RelayPin(i)] = "out"

\* C26: for every relay_pins list given to the constructor, a relay_on / relay_off call
\* with an index the range check accepts, made while the lines are configured, raises
\* nothing and stores the commanded state; and a cleanup() made while the lines are
\* configured raises nothing and leaves every configured line at HIGH.
C26_EveryPinHasAState ==
    /\ (call.op \in {"relay_on", "relay_off"} /\ IndexValid(call.idx) /\ gpio_mode) =>
           /\ call.raised = "none"
           /\ relay_states[call.idx + 1] = (call.op = "relay_on")
    /\ (call.op = "cleanup" /\ call.raised # "RuntimeError") =>
           /\ call.raised = "none"
           /\ \A i \in Channels : out[RelayPin(i)] = "HIGH"

====
